---- MODULE Spec2Model ----
(***************************************************************************)
(* RemoteBundle.create (src/pkg/bundler/remotebundle.go): publication of a *)
(* bundle to a remote OCI repository.  One action per step of create; the  *)
(* destination repository (content store and image index) is shared state. *)
(***************************************************************************)
EXTENDS Naturals, Sequences, FiniteSets

\* ------------------------------------------------------------------ bounds
MaxPkgs == 2
MaxCalls == 2

\* --------------------------------------------------------------- constants
Callers == {1, 2}
SeqCallers == {1}
Archs == {"amd64", "arm64"}
OtherArch == "riscv64"
MultiOS == "multi"
BundleYAML == "uds-bundle.yaml"
BundleYAMLSignature == "uds-bundle.yaml.sig"
ZarfLayerMediaTypeBlob == "application/vnd.zarf.layer.v1.blob"
MediaTypeImageManifest == "application/vnd.oci.image.manifest.v1+json"
MediaTypeConfig == "application/vnd.zarf.config.v1+json"
ErrArch == "architecture is required for bundling"
NoErr == "nil"

VARIABLES
    dst,            \* destination repository: set of contents (blobs, manifests)
    index,          \* destination repository: image index, sequence of entries
    cliArch,        \* config.GetArch()
    calls,          \* number of create calls started
    pc,             \* position of each caller inside create
    bundle,         \* r.bundle
    signature,      \* create's argument
    platform,       \* local platform
    bundleRemote,   \* local bundleRemote
    pusherConfig,   \* local pusherConfig
    i,              \* loop variable of the package loop (0-based)
    rootManifest,   \* local rootManifest
    bundleYamlBytes,\* local bundleYamlBytes
    configDesc,     \* local configDesc
    fetchedIndex,   \* local index returned by utils.GetIndex
    rootManifestDesc, \* local rootManifestDesc
    err,            \* value returned by create
    ops,            \* history: collaborator operations invoked in the call
    pushed,         \* history: contents pushed to dst by the call
    indexBefore,    \* history: the index when the call started
    published,      \* history: <<architecture, descriptor>> of successful calls
    retry           \* history: the attempt number of the call, and the index
                    \* when its first attempt started

regVars == <<dst, index>>
locVars == <<bundle, signature, platform, bundleRemote, pusherConfig, i, rootManifest,
             bundleYamlBytes, configDesc, fetchedIndex, rootManifestDesc>>
histVars == <<ops, pushed, indexBefore, published>>
vars == <<dst, index, cliArch, calls, pc, bundle, signature, platform,
          bundleRemote, pusherConfig, i, rootManifest, bundleYamlBytes, configDesc,
          fetchedIndex, rootManifestDesc, err, ops, pushed, indexBefore,
          published, retry>>

\* ------------------------------------------------------------- data model
Platform(a) == [Architecture |-> a, OS |-> MultiOS]

Package(k) == [Repository |-> k, Ref |-> 1]

Bundle(a, n) ==
    [Metadata |-> [Name |-> "core", Architecture |-> a],
     Packages |-> [k \in 1..n |-> Package(k)]]

NoBundle == Bundle("", 0)

ArchByte(a) == CASE a = "amd64" -> 1 [] a = "arm64" -> 2 [] OTHER -> 0

\* a content-addressed descriptor: the digest is modelled by the content
Descriptor(mediaType, content) ==
    [MediaType |-> mediaType, Digest |-> content, Title |-> ""]

WithTitle(d, t) == [d EXCEPT !.Title = t]

Blob(bytes) == [kind |-> "blob", bytes |-> bytes]

NoDesc == Descriptor("", Blob(<<>>))

EmptyManifest ==
    [SchemaVersion |-> 0, Config |-> NoDesc, Layers |-> <<>>,
     Annotations |-> <<>>]

\* oci.NewOrasRemote: a client bound to one (reference, platform) pair
NewOrasRemote(url, plat) == [url |-> url, platform |-> plat]

NoRemote == NewOrasRemote(<<0, 0>>, Platform(""))

\* the root manifest a source repository serves for its reference
SrcRootManifest(url) == [kind |-> "srcroot", url |-> url]

NoPusherConfig ==
    [NumPkgs |-> 0, RemoteDst |-> NoRemote, RemoteSrc |-> NoRemote,
     PkgRootManifest |-> SrcRootManifest(<<0, 0>>), PkgIter |-> 0]

\* the destination reference derived from r.output and the bundle metadata
DstRef == <<100, 1>>

IndexEntry(plat, d) == [Platform |-> plat, Desc |-> d]

OldDesc(a) ==
    Descriptor(MediaTypeImageManifest, [kind |-> "old", arch |-> a])

\* ---------------------------------------------------------- collaborators
\* goyaml.Marshal(bundle): the bundle's architecture and its package list
MarshalBundle(b) ==
    <<ArchByte(b.Metadata.Architecture)>> \o
        [k \in 1..Len(b.Packages) |-> b.Packages[k].Repository]

\* OrasRemote.PushLayer: the descriptor of the pushed bytes
PushLayerDesc(bytes, mediaType) == Descriptor(mediaType, Blob(bytes))

\* pusher.PkgPusher.Push: the descriptor of the package's manifest as
\* republished in the destination repository
PkgPushDesc(pkg, cfg) ==
    Descriptor(MediaTypeImageManifest,
               [kind |-> "pkg", repo |-> pkg.Repository,
                root |-> cfg.PkgRootManifest])

\* pushManifestConfigFromMetadata: the config blob of the bundle
ManifestConfigDesc(metadata) ==
    Descriptor(MediaTypeConfig,
               Blob(<<200, ArchByte(metadata.Architecture)>>))

\* manifestAnnotationsFromMetadata
ManifestAnnotations(metadata) == <<metadata.Name, metadata.Architecture>>

\* utils.ToOCIRemote: the descriptor of the pushed manifest
ManifestDesc(m) ==
    Descriptor(MediaTypeImageManifest, [kind |-> "root", manifest |-> m])

HasPlatform(idx, plat) == \E k \in DOMAIN idx : idx[k].Platform = plat

\* utils.UpdateIndex: replace or insert the entry of the bundle's platform
UpsertIndex(idx, b, d) ==
    LET plat == Platform(b.Metadata.Architecture)
        e == IndexEntry(plat, d)
    IN  IF HasPlatform(idx, plat)
        THEN [k \in DOMAIN idx |-> IF idx[k].Platform = plat THEN e ELSE idx[k]]
        ELSE Append(idx, e)

\* ------------------------------------------------------------------- state
\* an index published before: entries of two other platforms' bundles
OldIndex ==
    <<IndexEntry(Platform(OtherArch), OldDesc(OtherArch)),
      IndexEntry(Platform("arm64"), OldDesc("arm64"))>>

NoRetry == [attempt |-> 0, index |-> <<>>]

Idle(p) ==
    /\ bundle' = [bundle EXCEPT ![p] = NoBundle]
    /\ signature' = [signature EXCEPT ![p] = <<>>]
    /\ platform' = [platform EXCEPT ![p] = Platform("")]
    /\ bundleRemote' = [bundleRemote EXCEPT ![p] = NoRemote]
    /\ pusherConfig' = [pusherConfig EXCEPT ![p] = NoPusherConfig]
    /\ i' = [i EXCEPT ![p] = 0]
    /\ rootManifest' = [rootManifest EXCEPT ![p] = EmptyManifest]
    /\ bundleYamlBytes' = [bundleYamlBytes EXCEPT ![p] = <<>>]
    /\ configDesc' = [configDesc EXCEPT ![p] = NoDesc]
    /\ fetchedIndex' = [fetchedIndex EXCEPT ![p] = <<>>]
    /\ rootManifestDesc' = [rootManifestDesc EXCEPT ![p] = NoDesc]
    /\ err' = [err EXCEPT ![p] = NoErr]
    /\ ops' = [ops EXCEPT ![p] = <<>>]
    /\ pushed' = [pushed EXCEPT ![p] = {}]
    /\ indexBefore' = [indexBefore EXCEPT ![p] = <<>>]
    /\ retry' = [retry EXCEPT ![p] = NoRetry]

Init ==
    /\ index \in {<<>>, OldIndex}
    /\ dst = {index[k].Desc.Digest : k \in DOMAIN index}
    /\ cliArch = "amd64"
    /\ calls = 0
    /\ pc = [p \in Callers |-> "idle"]
    /\ bundle = [p \in Callers |-> NoBundle]
    /\ signature = [p \in Callers |-> <<>>]
    /\ platform = [p \in Callers |-> Platform("")]
    /\ bundleRemote = [p \in Callers |-> NoRemote]
    /\ pusherConfig = [p \in Callers |-> NoPusherConfig]
    /\ i = [p \in Callers |-> 0]
    /\ rootManifest = [p \in Callers |-> EmptyManifest]
    /\ bundleYamlBytes = [p \in Callers |-> <<>>]
    /\ configDesc = [p \in Callers |-> NoDesc]
    /\ fetchedIndex = [p \in Callers |-> <<>>]
    /\ rootManifestDesc = [p \in Callers |-> NoDesc]
    /\ err = [p \in Callers |-> NoErr]
    /\ ops = [p \in Callers |-> <<>>]
    /\ pushed = [p \in Callers |-> {}]
    /\ indexBefore = [p \in Callers |-> <<>>]
    /\ published = <<>>
    /\ retry = [p \in Callers |-> NoRetry]

\* --------------------------------------------------------- step helpers
ReturnWrapped(p, e) ==
    /\ pc' = [pc EXCEPT ![p] = "returned"]
    /\ err' = [err EXCEPT ![p] = IF e = NoErr THEN NoErr ELSE "ErrCreate"]

\* `return err`
Return(p, e) ==
    /\ pc' = [pc EXCEPT ![p] = "returned"]
    /\ err' = [err EXCEPT ![p] = e]

Goto(p, l) ==
    /\ pc' = [pc EXCEPT ![p] = l]
    /\ UNCHANGED err

\* history: the call invoked collaborator operation op (for package k),
\* which succeeded (ok) or returned an error
Invoke(p, op, k, ok) == ops' = [ops EXCEPT ![p] = Append(@, <<op, k, ok>>)]

\* the operation succeeded and create goes on at l
Ok(p, op, k, l) ==
    /\ Invoke(p, op, k, TRUE)
    /\ Goto(p, l)

\* the operation returned the error e: `if err != nil { return err }`
Fail(p, op, k, e) ==
    /\ Invoke(p, op, k, FALSE)
    /\ Return(p, e)

\* a push to the destination repository that completed
Store(p, content) ==
    /\ dst' = dst \cup {content}
    /\ pushed' = [pushed EXCEPT ![p] = @ \cup {content}]

ArchitectureCheckDropped(b) == FALSE

\* line 59
ArchitectureMissing(b) == b.Metadata.Architecture = ""

LoopPcOffByOne(k, b) ==
    IF k + 1 < Len(b.Packages) THEN "newSrcRemote" ELSE "marshal"

LoopPcStuck(k, b) ==
    IF k < Len(b.Packages) THEN "newSrcRemote" ELSE "loopEnd"

\* line 72: the loop continues while packages remain
LoopPc(k, b) == IF k < Len(b.Packages) THEN "newSrcRemote" ELSE "marshal"

NextStepRootFirst(l) ==
    CASE l = "marshal" -> "pushYaml"
      [] l = "pushYaml" -> "pushSignature"
      [] l = "pushSignature" -> "pushConfig"
      [] l = "pushConfig" -> "pushRoot"
      [] l = "pushRoot" -> "getIndex"
      [] l = "getIndex" -> "updateIndex"

\* lines 95-151: the order of the statements after the package loop
NextStep(l) ==
    CASE l = "marshal" -> "pushYaml"
      [] l = "pushYaml" -> "pushSignature"
      [] l = "pushSignature" -> "pushConfig"
      [] l = "pushConfig" -> "getIndex"
      [] l = "getIndex" -> "pushRoot"
      [] l = "pushRoot" -> "updateIndex"

AppendLayerFront(m, d) == [m EXCEPT !.Layers = <<d>> \o @]

\* lines 92, 109, 120
AppendLayer(m, d) == [m EXCEPT !.Layers = Append(@, d)]

\* line 112
SignaturePresent(sig) == Len(sig) > 0

FinishManifestNoConfig(m, cfgDesc, b) ==
    [m EXCEPT !.SchemaVersion = 2,
              !.Annotations = ManifestAnnotations(b.Metadata)]

\* lines 139-141
FinishManifest(m, cfgDesc, b) ==
    [m EXCEPT !.Config = cfgDesc, !.SchemaVersion = 2,
              !.Annotations = ManifestAnnotations(b.Metadata)]

\* ------------------------------------------------------- create, by step
\* a caller invokes r.create(signature)
Call(p) ==
    /\ pc[p] = "idle"
    /\ calls < MaxCalls
    /\ \E a \in Archs \cup {""}, n \in 0..MaxPkgs, sig \in {<<>>, <<9>>} :
          /\ bundle' = [bundle EXCEPT ![p] = Bundle(a, n)]
          /\ signature' = [signature EXCEPT ![p] = sig]
    /\ calls' = calls + 1
    /\ indexBefore' = [indexBefore EXCEPT ![p] = index]
    /\ retry' = [retry EXCEPT ![p] = [attempt |-> 1, index |-> index]]
    /\ Goto(p, "reference")
    /\ UNCHANGED <<regVars, cliArch, platform, bundleRemote, pusherConfig, i,
                   rootManifest, bundleYamlBytes, configDesc, fetchedIndex,
                   rootManifestDesc, ops, pushed, published>>

\* lines 43-47: referenceFromMetadata
Reference(p) ==
    /\ pc[p] = "reference"
    /\ \/ Ok(p, "resolve", 0, "newRemote")
       \/ Fail(p, "resolve", 0, "ErrReference")
    /\ UNCHANGED <<regVars, cliArch, retry, calls, locVars, pushed, indexBefore,
                   published>>

\* lines 48-57: the platform and the bundle remote
NewBundleRemote(p) ==
    /\ pc[p] = "newRemote"
    /\ platform' = [platform EXCEPT ![p] = Platform(cliArch)]
    /\ \/ /\ bundleRemote' =
                [bundleRemote EXCEPT ![p] = NewOrasRemote(DstRef, platform'[p])]
          /\ Ok(p, "bind", 0, "checkArch")
       \/ /\ Fail(p, "bind", 0, "ErrRemote")
          /\ UNCHANGED bundleRemote
    /\ UNCHANGED <<regVars, cliArch, retry, calls, bundle, signature, pusherConfig, i,
                   rootManifest, bundleYamlBytes, configDesc, fetchedIndex,
                   rootManifestDesc, pushed, indexBefore, published>>

CheckArchKeepManifest(p) ==
    /\ pc[p] = "checkArch"
    /\ IF ArchitectureMissing(bundle[p])
       THEN /\ Return(p, ErrArch)
            /\ UNCHANGED <<pusherConfig, i>>
       ELSE /\ pusherConfig' =
                 [pusherConfig EXCEPT ![p] =
                    [NoPusherConfig EXCEPT !.RemoteDst = bundleRemote[p],
                                           !.NumPkgs = Len(bundle[p].Packages)]]
            /\ i' = [i EXCEPT ![p] = 0]
            /\ Goto(p, LoopPc(0, bundle[p]))
    /\ UNCHANGED <<regVars, cliArch, retry, calls, bundle, signature, platform,
                   bundleRemote, bundleYamlBytes, configDesc, fetchedIndex,
                   rootManifestDesc, histVars, rootManifest>>

\* lines 58-70: the architecture check, then rootManifest and pusherConfig
CheckArch(p) ==
    /\ pc[p] = "checkArch"
    /\ IF ArchitectureMissing(bundle[p])
       THEN /\ Return(p, ErrArch)
            /\ UNCHANGED <<rootManifest, pusherConfig, i>>
       ELSE /\ rootManifest' = [rootManifest EXCEPT ![p] = EmptyManifest]
            /\ pusherConfig' =
                 [pusherConfig EXCEPT ![p] =
                    [NoPusherConfig EXCEPT !.RemoteDst = bundleRemote[p],
                                           !.NumPkgs = Len(bundle[p].Packages)]]
            /\ i' = [i EXCEPT ![p] = 0]
            /\ Goto(p, LoopPc(0, bundle[p]))
    /\ UNCHANGED <<regVars, cliArch, retry, calls, bundle, signature, platform,
                   bundleRemote, bundleYamlBytes, configDesc, fetchedIndex,
                   rootManifestDesc, histVars>>

\* lines 72-79: the source remote of package i
NewSrcRemote(p) ==
    /\ pc[p] = "newSrcRemote"
    /\ LET pkg == bundle[p].Packages[i[p] + 1]
           pkgUrl == <<pkg.Repository, pkg.Ref>>
       IN  \/ /\ pusherConfig' =
                    [pusherConfig EXCEPT ![p].RemoteSrc =
                        NewOrasRemote(pkgUrl, platform[p])]
              /\ Ok(p, "bindSrc", i[p], "fetchRoot")
           \/ /\ Fail(p, "bindSrc", i[p], "ErrSrcRemote")
              /\ UNCHANGED pusherConfig
    /\ UNCHANGED <<regVars, cliArch, retry, calls, bundle, signature, platform,
                   bundleRemote, i, rootManifest, bundleYamlBytes, configDesc,
                   fetchedIndex, rootManifestDesc, pushed, indexBefore,
                   published>>

FetchRootKeepIter(p) ==
    /\ pc[p] = "fetchRoot"
    /\ \/ /\ pusherConfig' =
                [pusherConfig EXCEPT
                    ![p].PkgRootManifest =
                        SrcRootManifest(pusherConfig[p].RemoteSrc.url)]
          /\ Ok(p, "fetchRoot", i[p], "pkgPush")
       \/ /\ Fail(p, "fetchRoot", i[p], "ErrFetchRoot")
          /\ UNCHANGED pusherConfig
    /\ UNCHANGED <<regVars, cliArch, retry, calls, bundle, signature, platform,
                   bundleRemote, i, rootManifest, bundleYamlBytes, configDesc,
                   fetchedIndex, rootManifestDesc, pushed, indexBefore,
                   published>>

\* lines 80-85: the source's root manifest
FetchRoot(p) ==
    /\ pc[p] = "fetchRoot"
    /\ \/ /\ pusherConfig' =
                [pusherConfig EXCEPT
                    ![p].PkgRootManifest =
                        SrcRootManifest(pusherConfig[p].RemoteSrc.url),
                    ![p].PkgIter = i[p]]
          /\ Ok(p, "fetchRoot", i[p], "pkgPush")
       \/ /\ Fail(p, "fetchRoot", i[p], "ErrFetchRoot")
          /\ UNCHANGED pusherConfig
    /\ UNCHANGED <<regVars, cliArch, retry, calls, bundle, signature, platform,
                   bundleRemote, i, rootManifest, bundleYamlBytes, configDesc,
                   fetchedIndex, rootManifestDesc, pushed, indexBefore,
                   published>>

PkgPushRetryOnce(p) ==
    /\ pc[p] = "pkgPush"
    /\ LET pkg == bundle[p].Packages[i[p] + 1]
           zarfManifestDesc == PkgPushDesc(pkg, pusherConfig[p])
           failedBefore ==
               \E k \in DOMAIN ops[p] : ops[p][k] = <<"publish", i[p], FALSE>>
       IN  \/ /\ Store(p, zarfManifestDesc.Digest)
              /\ rootManifest' =
                    [rootManifest EXCEPT ![p] = AppendLayer(@, zarfManifestDesc)]
              /\ i' = [i EXCEPT ![p] = @ + 1]
              /\ Ok(p, "publish", i[p], LoopPc(i[p] + 1, bundle[p]))
           \/ /\ IF failedBefore
                 THEN Fail(p, "publish", i[p], "ErrPkgPush")
                 ELSE /\ Invoke(p, "publish", i[p], FALSE)
                      /\ Goto(p, "pkgPush")
              /\ UNCHANGED <<dst, pushed, rootManifest, i>>
    /\ UNCHANGED <<index, cliArch, retry, calls, bundle, signature, platform,
                   bundleRemote, pusherConfig, bundleYamlBytes, configDesc,
                   fetchedIndex, rootManifestDesc, indexBefore, published>>

PkgPushIgnoreError(p) ==
    /\ pc[p] = "pkgPush"
    /\ LET pkg == bundle[p].Packages[i[p] + 1]
           zarfManifestDesc == PkgPushDesc(pkg, pusherConfig[p])
       IN  \/ /\ Store(p, zarfManifestDesc.Digest)
              /\ rootManifest' =
                    [rootManifest EXCEPT ![p] = AppendLayer(@, zarfManifestDesc)]
              /\ Ok(p, "publish", i[p], LoopPc(i[p] + 1, bundle[p]))
           \/ /\ Invoke(p, "publish", i[p], FALSE)
              /\ Goto(p, LoopPc(i[p] + 1, bundle[p]))
              /\ UNCHANGED <<dst, pushed, rootManifest>>
    /\ i' = [i EXCEPT ![p] = @ + 1]
    /\ UNCHANGED <<index, cliArch, retry, calls, bundle, signature, platform,
                   bundleRemote, pusherConfig, bundleYamlBytes, configDesc,
                   fetchedIndex, rootManifestDesc, indexBefore, published>>

\* lines 87-93: the package publisher, and the layer of package i
PkgPush(p) ==
    /\ pc[p] = "pkgPush"
    /\ LET pkg == bundle[p].Packages[i[p] + 1]
           zarfManifestDesc == PkgPushDesc(pkg, pusherConfig[p])
       IN  \/ /\ Store(p, zarfManifestDesc.Digest)
              /\ rootManifest' =
                    [rootManifest EXCEPT ![p] = AppendLayer(@, zarfManifestDesc)]
              /\ i' = [i EXCEPT ![p] = @ + 1]
              /\ Ok(p, "publish", i[p], LoopPc(i[p] + 1, bundle[p]))
           \/ /\ Fail(p, "publish", i[p], "ErrPkgPush")
              /\ UNCHANGED <<dst, pushed, rootManifest, i>>
    /\ UNCHANGED <<index, cliArch, retry, calls, bundle, signature, platform,
                   bundleRemote, pusherConfig, bundleYamlBytes, configDesc,
                   fetchedIndex, rootManifestDesc, indexBefore, published>>

\* lines 95-99: goyaml.Marshal(bundle)
Marshal(p) ==
    /\ pc[p] = "marshal"
    /\ \/ /\ bundleYamlBytes' =
                [bundleYamlBytes EXCEPT ![p] = MarshalBundle(bundle[p])]
          /\ Ok(p, "marshal", 0, NextStep("marshal"))
       \/ /\ Fail(p, "marshal", 0, "ErrMarshal")
          /\ UNCHANGED bundleYamlBytes
    /\ UNCHANGED <<regVars, cliArch, retry, calls, bundle, signature, platform,
                   bundleRemote, pusherConfig, i, rootManifest, configDesc,
                   fetchedIndex, rootManifestDesc, pushed, indexBefore,
                   published>>

\* lines 100-109: the bundle's metadata layer
PushBundleYaml(p) ==
    /\ pc[p] = "pushYaml"
    /\ LET pushedDesc ==
               PushLayerDesc(bundleYamlBytes[p], ZarfLayerMediaTypeBlob)
           bundleYamlDesc == WithTitle(pushedDesc, BundleYAML)
       IN  \/ /\ Store(p, pushedDesc.Digest)
              /\ rootManifest' =
                    [rootManifest EXCEPT ![p] = AppendLayer(@, bundleYamlDesc)]
              /\ Ok(p, "pushMetadata", 0, IF SignaturePresent(signature[p])
                    THEN NextStep("pushYaml")
                    ELSE NextStep("pushSignature"))
           \/ /\ Fail(p, "pushMetadata", 0, "ErrPushMetadata")
              /\ UNCHANGED <<dst, pushed, rootManifest>>
    /\ UNCHANGED <<index, cliArch, retry, calls, bundle, signature, platform,
                   bundleRemote, pusherConfig, i, bundleYamlBytes, configDesc,
                   fetchedIndex, rootManifestDesc, indexBefore, published>>

PushSignatureIgnoreError(p) ==
    /\ pc[p] = "pushSignature"
    /\ LET pushedDesc == PushLayerDesc(signature[p], ZarfLayerMediaTypeBlob)
           bundleYamlSigDesc == WithTitle(pushedDesc, BundleYAMLSignature)
       IN  /\ \/ /\ Store(p, pushedDesc.Digest)
                 /\ Invoke(p, "pushSignature", 0, TRUE)
              \/ /\ Invoke(p, "pushSignature", 0, FALSE)
                 /\ UNCHANGED <<dst, pushed>>
           /\ rootManifest' =
                 [rootManifest EXCEPT ![p] = AppendLayer(@, bundleYamlSigDesc)]
           /\ Goto(p, NextStep("pushSignature"))
    /\ UNCHANGED <<index, cliArch, retry, calls, bundle, signature, platform,
                   bundleRemote, pusherConfig, i, bundleYamlBytes, configDesc,
                   fetchedIndex, rootManifestDesc, indexBefore, published>>

\* lines 111-122: the bundle's signature layer
PushSignature(p) ==
    /\ pc[p] = "pushSignature"
    /\ LET pushedDesc == PushLayerDesc(signature[p], ZarfLayerMediaTypeBlob)
           bundleYamlSigDesc == WithTitle(pushedDesc, BundleYAMLSignature)
       IN  \/ /\ Store(p, pushedDesc.Digest)
              /\ rootManifest' =
                    [rootManifest EXCEPT ![p] = AppendLayer(@, bundleYamlSigDesc)]
              /\ Ok(p, "pushSignature", 0, NextStep("pushSignature"))
           \/ /\ Fail(p, "pushSignature", 0, "ErrPushSignature")
              /\ UNCHANGED <<dst, pushed, rootManifest>>
    /\ UNCHANGED <<index, cliArch, retry, calls, bundle, signature, platform,
                   bundleRemote, pusherConfig, i, bundleYamlBytes, configDesc,
                   fetchedIndex, rootManifestDesc, indexBefore, published>>

\* lines 124-128: the bundle manifest config
PushConfig(p) ==
    /\ pc[p] = "pushConfig"
    /\ LET d == ManifestConfigDesc(bundle[p].Metadata)
       IN  \/ /\ Store(p, d.Digest)
              /\ configDesc' = [configDesc EXCEPT ![p] = d]
              /\ Ok(p, "pushConfig", 0, NextStep("pushConfig"))
           \/ /\ Fail(p, "pushConfig", 0, "ErrPushConfig")
              /\ UNCHANGED <<dst, pushed, configDesc>>
    /\ UNCHANGED <<index, cliArch, retry, calls, bundle, signature, platform,
                   bundleRemote, pusherConfig, i, rootManifest, bundleYamlBytes,
                   fetchedIndex, rootManifestDesc, indexBefore, published>>

\* lines 132-136: the existing index
GetIndex(p) ==
    /\ pc[p] = "getIndex"
    /\ \/ /\ fetchedIndex' = [fetchedIndex EXCEPT ![p] = index]
          /\ Ok(p, "getIndex", 0, NextStep("getIndex"))
       \/ /\ Fail(p, "getIndex", 0, "ErrGetIndex")
          /\ UNCHANGED fetchedIndex
    /\ UNCHANGED <<regVars, cliArch, retry, calls, bundle, signature, platform,
                   bundleRemote, pusherConfig, i, rootManifest, bundleYamlBytes,
                   configDesc, rootManifestDesc, pushed, indexBefore, published>>

\* lines 138-145: the bundle root manifest
PushRootManifest(p) ==
    /\ pc[p] = "pushRoot"
    /\ rootManifest' =
          [rootManifest EXCEPT ![p] = FinishManifest(@, configDesc[p], bundle[p])]
    /\ LET d == ManifestDesc(rootManifest'[p])
       IN  \/ /\ Store(p, d.Digest)
              /\ rootManifestDesc' = [rootManifestDesc EXCEPT ![p] = d]
              /\ Ok(p, "pushManifest", 0, NextStep("pushRoot"))
           \/ /\ Fail(p, "pushManifest", 0, "ErrPushManifest")
              /\ UNCHANGED <<dst, pushed, rootManifestDesc>>
    /\ UNCHANGED <<index, cliArch, retry, calls, bundle, signature, platform,
                   bundleRemote, pusherConfig, i, bundleYamlBytes, configDesc,
                   fetchedIndex, indexBefore, published>>

\* lines 147-163 with the arguments of utils.UpdateIndex made explicit:
\* the index is upserted into idx with descriptor d, pushed, and nil returned
UpdateIndexWith(p, idx, d) ==
    /\ pc[p] = "updateIndex"
    /\ \/ /\ index' = UpsertIndex(idx, bundle[p], d)
          /\ published' =
                Append(published,
                       <<bundle[p].Metadata.Architecture, rootManifestDesc[p]>>)
          /\ Invoke(p, "updateIndex", 0, TRUE)
          /\ Return(p, NoErr)
       \/ /\ Fail(p, "updateIndex", 0, "ErrUpdateIndex")
          /\ UNCHANGED <<index, published>>
    /\ UNCHANGED <<dst, cliArch, retry, calls, locVars, pushed, indexBefore>>

UpdateIndexFresh(p) == UpdateIndexWith(p, <<>>, rootManifestDesc[p])

UpdateIndexConfigDesc(p) == UpdateIndexWith(p, fetchedIndex[p], configDesc[p])

\* lines 147-163: create or update the index, push it, return nil
UpdateIndex(p) == UpdateIndexWith(p, fetchedIndex[p], rootManifestDesc[p])

FinishRollback(p) ==
    /\ pc[p] = "returned"
    /\ pc' = [pc EXCEPT ![p] = "idle"]
    /\ Idle(p)
    /\ dst' = IF err[p] # NoErr THEN dst \ pushed[p] ELSE dst
    /\ UNCHANGED <<index, cliArch, calls, published>>

\* the caller has the result; the RemoteBundle may be used again
Finish(p) ==
    /\ pc[p] = "returned"
    /\ pc' = [pc EXCEPT ![p] = "idle"]
    /\ Idle(p)
    /\ UNCHANGED <<regVars, cliArch, calls, published>>

\* the caller calls create again, with the same bundle and signature, after
\* it returned an error; the locals of the new call are not yet initialised
Retry(p) ==
    /\ pc[p] = "returned"
    /\ err[p] # NoErr
    /\ calls < MaxCalls
    /\ calls' = calls + 1
    /\ pc' = [pc EXCEPT ![p] = "reference"]
    /\ err' = [err EXCEPT ![p] = NoErr]
    /\ ops' = [ops EXCEPT ![p] = <<>>]
    /\ pushed' = [pushed EXCEPT ![p] = {}]
    /\ indexBefore' = [indexBefore EXCEPT ![p] = index]
    /\ retry' = [retry EXCEPT ![p].attempt = @ + 1]
    /\ UNCHANGED <<regVars, cliArch, locVars, published>>

\* one step of create
CreateStep(p) ==
    \/ Call(p)
    \/ Reference(p)
    \/ NewBundleRemote(p)
    \/ CheckArch(p)
    \/ NewSrcRemote(p)
    \/ FetchRoot(p)
    \/ PkgPush(p)
    \/ Marshal(p)
    \/ PushBundleYaml(p)
    \/ PushSignature(p)
    \/ PushConfig(p)
    \/ GetIndex(p)
    \/ PushRootManifest(p)
    \/ UpdateIndex(p)

Step(p) ==
    \/ CreateStep(p)
    \/ Finish(p)

Returned(p) == pc[p] = "returned"
Succeeded(p) == Returned(p) /\ err[p] = NoErr
Failed(p) == Returned(p) /\ err[p] # NoErr

\* one caller, one create call after the other
Next == \E p \in SeqCallers : Step(p)

Spec == Init /\ [][Next]_vars

\* one caller that calls create again whenever it returned an error
NextRetry ==
    \E p \in SeqCallers :
        \/ CreateStep(p)
        \/ Retry(p)
        \/ Succeeded(p) /\ Finish(p)

SpecRetry == Init /\ [][NextRetry]_vars

\* two callers, each in one create call, their steps interleaved
NextConc == \E p \in Callers : CreateStep(p)

SpecConc == Init /\ [][NextConc]_vars

\* one create call in which every collaborator call returns: a step that
\* can be taken is taken
NextOnce == \E p \in SeqCallers : CreateStep(p)

SpecFair == Init /\ [][NextOnce]_vars /\ WF_vars(NextOnce)

\* ---------------------------------------------------------------- claims
NumPkgs(p) == Len(bundle[p].Packages)
Signed(p) == signature[p] # <<>>
ArchEmpty(p) == bundle[p].Metadata.Architecture = ""

\* the root manifests the call has pushed
PushedRoots(p) == {c \in pushed[p] : c.kind = "root"}

\* the operations of a Registry Client and of the collaborators using one
RegistryOps ==
    {"fetchRoot", "publish", "pushMetadata", "pushSignature", "pushConfig",
     "getIndex", "pushManifest", "updateIndex"}

Invoked(p, op) == \E k \in DOMAIN ops[p] : ops[p][k][1] = op
AllOpsOk(p) == \A k \in DOMAIN ops[p] : ops[p][k][3]

\* C1: the root manifest pushed by a successful create lists the package
\* descriptors in declaration order, then the metadata blob, then (exactly
\* when a signature was given) the signature blob, and nothing else.
C1_LayerOrder ==
    \A p \in Callers : Succeeded(p) =>
        /\ Cardinality(PushedRoots(p)) = 1
        /\ \A c \in PushedRoots(p) :
            LET L == c.manifest.Layers
                N == NumPkgs(p)
            IN  /\ Len(L) = IF Signed(p) THEN N + 2 ELSE N + 1
                /\ \A k \in 1..N :
                      /\ L[k].Digest.kind = "pkg"
                      /\ L[k].Digest.repo = bundle[p].Packages[k].Repository
                /\ L[N + 1].Digest = Blob(MarshalBundle(bundle[p]))
                /\ L[N + 1].Title = BundleYAML
                /\ Signed(p) =>
                      /\ L[N + 2].Digest = Blob(signature[p])
                      /\ L[N + 2].Title = BundleYAMLSignature

C1_Witness ==
    \E p \in Callers : Succeeded(p) /\ NumPkgs(p) = 2 /\ Signed(p)

\* C2: a create call on a bundle without architecture invokes no registry
\* operation and pushes nothing.
C2_NoRegistryOps ==
    \A p \in Callers : ArchEmpty(p) =>
        /\ \A k \in DOMAIN ops[p] : ops[p][k][1] \notin RegistryOps
        /\ pushed[p] = {}

C2_Witness ==
    \E p \in Callers :
        Returned(p) /\ ArchEmpty(p) /\ NumPkgs(p) > 0 /\ err[p] = ErrArch

PackageOps == {"bindSrc", "fetchRoot", "publish"}

PublishFailed(p) ==
    \E k \in DOMAIN ops[p] : ops[p][k][1] = "publish" /\ ~ops[p][k][3]

BundlePlatform(p) == Platform(bundle[p].Metadata.Architecture)

\* C4: when the bind, the fetch or the publish of package k fails, create
\* returns at once: it invokes nothing more (no step of a later package, no
\* push of the metadata, signature, config, root manifest or index); and a
\* root-manifest push or index update is invoked only after the publisher
\* has succeeded for every package of the bundle.
C4_PackageFailureAborts ==
    \A p \in Callers :
        /\ \A k \in DOMAIN ops[p] :
              ops[p][k][1] \in PackageOps /\ ~ops[p][k][3] =>
                /\ Returned(p)
                /\ k = Len(ops[p])
                /\ \A m \in DOMAIN ops[p] :
                      /\ ops[p][m][1] \in PackageOps \cup {"resolve", "bind"}
                      /\ ops[p][m][2] <= ops[p][k][2]
                /\ \A c \in pushed[p] : c.kind = "pkg"
        /\ Invoked(p, "pushManifest") \/ Invoked(p, "updateIndex") =>
              \A j \in 0..(NumPkgs(p) - 1) :
                 \E k \in DOMAIN ops[p] : ops[p][k] = <<"publish", j, TRUE>>

C4_Witness ==
    \E p \in Callers :
        /\ Returned(p) /\ NumPkgs(p) = 2
        /\ ops[p][Len(ops[p])] = <<"fetchRoot", 0, FALSE>>

\* C5: when the publish of a package fails, the index after the call is the
\* index before the call, the call neither fetched nor updated it, and a
\* platform without entry before the call has none after it.
C5_IndexUntouched ==
    \A p \in Callers : Returned(p) /\ PublishFailed(p) =>
        /\ index = indexBefore[p]
        /\ ~Invoked(p, "getIndex")
        /\ ~Invoked(p, "updateIndex")
        /\ ~HasPlatform(indexBefore[p], BundlePlatform(p)) =>
              ~HasPlatform(index, BundlePlatform(p))

C5_Witness ==
    \E p \in Callers :
        /\ Returned(p) /\ err[p] = "ErrPkgPush" /\ i[p] = 1
        /\ ~HasPlatform(index, BundlePlatform(p))

\* C6: after a successful create for platform C the index holds every entry
\* it held before the call for another platform, unchanged, and one entry
\* for C, and nothing else.
C6_UpsertPreserves ==
    \A p \in Callers : Succeeded(p) =>
        LET C == BundlePlatform(p)
            before == indexBefore[p]
            others == {k \in DOMAIN before : before[k].Platform # C}
        IN  /\ \A k \in others : \E j \in DOMAIN index : index[j] = before[k]
            /\ Cardinality({j \in DOMAIN index : index[j].Platform = C}) = 1
            /\ Len(index) = Cardinality(others) + 1

C6_Witness ==
    \E p \in Callers :
        /\ Succeeded(p) /\ indexBefore[p] = OldIndex
        /\ bundle[p].Metadata.Architecture = "amd64"
        /\ Len(index) = 3

\* the successful calls for architecture a, by their position in published
PublishedFor(a) == {k \in DOMAIN published : published[k][1] = a}

Last(S) == CHOOSE k \in S : \A m \in S : m <= k

\* C7: the index never holds two entries of one platform, and once create
\* has succeeded for a platform the index holds that platform's entry with
\* the root-manifest descriptor of the most recent successful call.
C7_OneEntryPerPlatform ==
    /\ \A j, k \in DOMAIN index :
          index[j].Platform = index[k].Platform => j = k
    /\ \A a \in Archs : PublishedFor(a) # {} =>
          \E j \in DOMAIN index :
             index[j] =
                IndexEntry(Platform(a), published[Last(PublishedFor(a))][2])

C7_Witness ==
    /\ Len(published) = 2
    /\ published[1][1] = published[2][1]
    /\ published[1][2] # published[2][2]
    /\ \E j \in DOMAIN index : index[j].Desc = published[2][2]

\* C8: when create returns success the index holds an entry of the bundle's
\* platform whose descriptor is that of the root manifest the call pushed,
\* and that manifest, its layers and its config are in the destination.
C8_SuccessResolvable ==
    \A p \in Callers : Succeeded(p) =>
        /\ \E j \in DOMAIN index :
              /\ index[j].Platform = BundlePlatform(p)
              /\ index[j].Desc.MediaType = MediaTypeImageManifest
              /\ index[j].Desc.Digest \in PushedRoots(p)
        /\ \A c \in PushedRoots(p) :
              /\ c \in dst
              /\ c.manifest.Config.Digest \in dst
              /\ \A k \in DOMAIN c.manifest.Layers :
                    c.manifest.Layers[k].Digest \in dst

C8_Witness ==
    \E p \in Callers :
        /\ Succeeded(p) /\ NumPkgs(p) = 1
        /\ HasPlatform(indexBefore[p], BundlePlatform(p))

\* the call invokes the root-manifest push in this step
PushesRoot(p) ==
    /\ Len(ops'[p]) = Len(ops[p]) + 1
    /\ ops'[p][Len(ops'[p])][1] = "pushManifest"

\* C9: when the root manifest is pushed, every layer descriptor and the
\* config descriptor of it refer to content the same call has pushed before.
C9_LayersPushedBeforeRoot ==
    [][\A p \in Callers : PushesRoot(p) =>
          /\ rootManifest'[p].Config.Digest \in pushed[p]
          /\ \A k \in DOMAIN rootManifest'[p].Layers :
                rootManifest'[p].Layers[k].Digest \in pushed[p]]_vars

C9_Witness ==
    \E p \in Callers :
        /\ PushedRoots(p) # {} /\ NumPkgs(p) = 2 /\ Signed(p)
        /\ pc[p] = "updateIndex"

\* C10 as stated: when create returns an error the call has pushed no root
\* manifest and the index is the index before the call.
C10_FailureLeavesNothing ==
    \A p \in Callers : Failed(p) =>
        /\ PushedRoots(p) = {}
        /\ index = indexBefore[p]

\* C10 amended: when create returns an error the index is the index before
\* the call, and the call has pushed no root manifest unless the step that
\* failed is the index update, which runs after the root-manifest push.
C10_FailureLeavesIndex ==
    \A p \in Callers : Failed(p) =>
        /\ index = indexBefore[p]
        /\ err[p] # "ErrUpdateIndex" => PushedRoots(p) = {}
        /\ err[p] = "ErrUpdateIndex" =>
              /\ Cardinality(PushedRoots(p)) = 1
              /\ PushedRoots(p) \subseteq dst

C10_Witness ==
    \E p \in Callers :
        /\ Failed(p) /\ err[p] = "ErrUpdateIndex"
        /\ PushedRoots(p) # {} /\ index = indexBefore[p]

\* the collaborator operations of a create call on n packages, in order
PackageStep(m) ==
    << <<"bindSrc", "fetchRoot", "publish">>[((m - 1) % 3) + 1], (m - 1) \div 3 >>

ExpectedOps(n, signed) ==
    << <<"resolve", 0>>, <<"bind", 0>> >> \o
    [m \in 1..(3 * n) |-> PackageStep(m)] \o
    << <<"marshal", 0>>, <<"pushMetadata", 0>> >> \o
    (IF signed THEN << <<"pushSignature", 0>> >> ELSE <<>>) \o
    << <<"pushConfig", 0>>, <<"getIndex", 0>>, <<"pushManifest", 0>>,
       <<"updateIndex", 0>> >>

\* what the call has invoked so far is the beginning of that order
InOrder(p) ==
    LET E == ExpectedOps(NumPkgs(p), Signed(p))
    IN  /\ Len(ops[p]) <= Len(E)
        /\ \A k \in DOMAIN ops[p] : <<ops[p][k][1], ops[p][k][2]>> = E[k]

\* C11: a create call made again after a failed one starts over (resolver,
\* bind, package 0, ...) and, when it succeeds, leaves what one successful
\* call on the registry of the first attempt leaves: the other platforms'
\* entries of that index, one entry of the bundle's platform pointing at the
\* root manifest this call pushed, whose layers are those of a single call.
C11_RetrySafe ==
    \A p \in Callers : retry[p].attempt > 1 =>
        /\ InOrder(p)
        /\ Succeeded(p) =>
            LET C == BundlePlatform(p)
                first == retry[p].index
                others == {k \in DOMAIN first : first[k].Platform # C}
                N == NumPkgs(p)
            IN  /\ Len(ops[p]) = Len(ExpectedOps(N, Signed(p)))
                /\ \A k \in others : \E j \in DOMAIN index : index[j] = first[k]
                /\ Len(index) = Cardinality(others) + 1
                /\ \E j \in DOMAIN index :
                      /\ index[j].Platform = C
                      /\ index[j].Desc.Digest \in PushedRoots(p)
                /\ \A c \in PushedRoots(p) :
                      /\ Len(c.manifest.Layers) = IF Signed(p) THEN N + 2 ELSE N + 1
                      /\ \A k \in 1..N :
                            /\ c.manifest.Layers[k].Digest.kind = "pkg"
                            /\ c.manifest.Layers[k].Digest.repo = k

C11_Witness ==
    \E p \in Callers :
        /\ retry[p].attempt = 2 /\ Succeeded(p) /\ NumPkgs(p) = 2
        /\ retry[p].index = OldIndex
        /\ Signed(p) /\ Len(index) = 3

OpAt(p, k) == <<ops[p][k][1], ops[p][k][2]>>

\* C12: in every create call the operations come in one order: resolver,
\* bind, the packages' steps, metadata push, signature push (if any), config
\* push, index fetch, root-manifest push, index update.  The root manifest
\* is pushed only after the index was fetched successfully, and the index
\* entry written is the descriptor of the root manifest the call pushed.
C12_FixedOrder ==
    \A p \in Callers :
        /\ InOrder(p)
        /\ Invoked(p, "pushManifest") =>
              \E k \in DOMAIN ops[p] : ops[p][k] = <<"getIndex", 0, TRUE>>
        /\ (\E k \in DOMAIN ops[p] : ops[p][k] = <<"getIndex", 0, FALSE>>) =>
              /\ PushedRoots(p) = {}
              /\ ~Invoked(p, "pushManifest")
        /\ Succeeded(p) =>
              \E j \in DOMAIN index :
                 /\ index[j] = IndexEntry(BundlePlatform(p), rootManifestDesc[p])
                 /\ rootManifestDesc[p].Digest \in PushedRoots(p)

C12_Witness ==
    \E p \in Callers :
        /\ Returned(p) /\ err[p] = "ErrGetIndex" /\ Signed(p)
        /\ NumPkgs(p) = 1 /\ PushedRoots(p) = {}

PublishesDone(p) ==
    Cardinality({k \in DOMAIN ops[p] : ops[p][k][1] = "publish"})

\* C13: the packages are handled one after the other: an operation of a
\* later package is invoked only after every operation of the earlier ones
\* has returned successfully; and what the publisher gets for package i is
\* the source client bound to package i's repository:ref under the call's
\* platform, the root manifest fetched from that client, and position i.
C13_SequentialLoop ==
    \A p \in Callers :
        /\ \A m, n \in DOMAIN ops[p] :
              m < n /\ ops[p][m][1] \in PackageOps /\ ops[p][n][1] \in PackageOps
                 => /\ ops[p][m][2] <= ops[p][n][2]
                    /\ ops[p][m][3]
                    /\ OpAt(p, m) # OpAt(p, n)
        /\ pc[p] = "pkgPush" =>
              LET k == PublishesDone(p)
                  pkg == bundle[p].Packages[k + 1]
                  url == <<pkg.Repository, pkg.Ref>>
                  cfg == pusherConfig[p]
              IN  /\ OpAt(p, Len(ops[p])) = <<"fetchRoot", k>>
                  /\ cfg.RemoteSrc.url = url
                  /\ cfg.RemoteSrc.platform = platform[p]
                  /\ cfg.PkgRootManifest.url = url
                  /\ cfg.PkgIter = k
                  /\ cfg.RemoteDst = bundleRemote[p]
                  /\ cfg.NumPkgs = NumPkgs(p)

C13_Witness ==
    \E p \in Callers :
        /\ pc[p] = "pkgPush" /\ PublishesDone(p) = 1
        /\ pusherConfig[p].PkgIter = 1

\* the error a collaborator operation returns when it fails
ErrOf(op) ==
    CASE op = "resolve" -> "ErrReference"
      [] op = "bind" -> "ErrRemote"
      [] op = "bindSrc" -> "ErrSrcRemote"
      [] op = "fetchRoot" -> "ErrFetchRoot"
      [] op = "publish" -> "ErrPkgPush"
      [] op = "marshal" -> "ErrMarshal"
      [] op = "pushMetadata" -> "ErrPushMetadata"
      [] op = "pushSignature" -> "ErrPushSignature"
      [] op = "pushConfig" -> "ErrPushConfig"
      [] op = "getIndex" -> "ErrGetIndex"
      [] op = "pushManifest" -> "ErrPushManifest"
      [] op = "updateIndex" -> "ErrUpdateIndex"

FailedOps(p) == {k \in DOMAIN ops[p] : ~ops[p][k][3]}

First(S) == CHOOSE k \in S : \A m \in S : k <= m

\* C14: create returns the error of the first step that failed, as that
\* step returned it (the missing-architecture error when the architecture
\* check is that step), and returns nil exactly when every step of the call
\* was run and none failed.
C14_FirstErrorReturned ==
    \A p \in Callers : Returned(p) =>
        /\ FailedOps(p) # {} => err[p] = ErrOf(ops[p][First(FailedOps(p))][1])
        /\ FailedOps(p) = {} /\ ArchEmpty(p) => err[p] = ErrArch
        /\ err[p] = NoErr <=>
              /\ FailedOps(p) = {}
              /\ ~ArchEmpty(p)
              /\ Len(ops[p]) = Len(ExpectedOps(NumPkgs(p), Signed(p)))

C14_Witness ==
    \E p \in Callers :
        /\ Returned(p) /\ err[p] = "ErrPushConfig"
        /\ ops[p][Len(ops[p])] = <<"pushConfig", 0, FALSE>>

\* C15: no step is retried: within a call no operation is invoked twice (for
\* the same package), and an operation that failed is the last one invoked.
C15_NoRetry ==
    \A p \in Callers :
        /\ \A m, n \in DOMAIN ops[p] : OpAt(p, m) = OpAt(p, n) => m = n
        /\ \A k \in FailedOps(p) : k = Len(ops[p]) /\ Returned(p)

C15_Witness ==
    \E p \in Callers :
        /\ Returned(p) /\ err[p] = "ErrPushManifest" /\ NumPkgs(p) = 2
        /\ FailedOps(p) = {Len(ops[p])}

\* C16: create removes nothing from the destination repository: no step
\* takes content away, and whatever a call has pushed (the manifests of the
\* packages published before a failure, the blobs) is there while it runs,
\* when it returns, and afterwards.
C16_NoRollback ==
    [][/\ dst \subseteq dst'
       /\ \A p \in Callers : pushed'[p] \subseteq dst']_vars

C16_Witness ==
    \E p \in Callers :
        /\ Failed(p) /\ err[p] = "ErrPkgPush" /\ PublishesDone(p) = 2
        /\ \E c \in pushed[p] : c.kind = "pkg" /\ c \in dst

\* C17 as stated: when two create calls for different platforms have both
\* returned success, the index holds the entry of each of them.
C17_BothEntriesKept ==
    \A p, q \in Callers :
        /\ p # q /\ Succeeded(p) /\ Succeeded(q)
        /\ BundlePlatform(p) # BundlePlatform(q)
        => /\ \E j \in DOMAIN index :
                 index[j] = IndexEntry(BundlePlatform(p), rootManifestDesc[p])
           /\ \E j \in DOMAIN index :
                 index[j] = IndexEntry(BundlePlatform(q), rootManifestDesc[q])

\* the clients of a call that has passed the architecture check
PastArchCheck(p) ==
    /\ pc[p] \notin {"idle", "reference", "newRemote", "checkArch"}
    /\ bundleRemote[p] # NoRemote
    /\ ~ArchEmpty(p)

SamePlatformBound(p) ==
    /\ bundleRemote[p].platform = platform[p]
    /\ pusherConfig[p].RemoteSrc # NoRemote
       => pusherConfig[p].RemoteSrc.platform = platform[p]

\* C18 as stated: in a call that has passed the architecture check, the
\* destination client and every source client are bound to one platform,
\* and that platform's architecture is the bundle's declared architecture.
C18_PlatformIsBundleArch ==
    \A p \in Callers :
        PastArchCheck(p)
        => /\ SamePlatformBound(p)
           /\ platform[p].Architecture = bundle[p].Metadata.Architecture

InCall(p) == pc[p] \notin {"idle", "returned"}

Times(p, op) == Cardinality({k \in DOMAIN ops[p] : ops[p][k][1] = op})

\* the steps before and after the package loop
OnceOps ==
    {"resolve", "bind", "marshal", "pushMetadata", "pushSignature",
     "pushConfig", "getIndex", "pushManifest", "updateIndex"}

StepBound(p) ==
    /\ i[p] <= NumPkgs(p)
    /\ \A op \in PackageOps : Times(p, op) <= NumPkgs(p)
    /\ \A op \in OnceOps : Times(p, op) <= 1
    /\ Len(ops[p]) <= 3 * NumPkgs(p) + (IF Signed(p) THEN 9 ELSE 8)

\* C19: when every collaborator call returns, a create call on a bundle of
\* N packages reaches an outcome (nil or an error): it runs each package
\* step at most N times and each other step at most once, and whenever a
\* call is in progress it eventually returns.
C19_Terminates ==
    /\ [](\A p \in Callers : StepBound(p))
    /\ \A p \in Callers : InCall(p) ~> Returned(p)

C19_Witness ==
    \E p \in Callers :
        /\ Succeeded(p) /\ NumPkgs(p) = MaxPkgs /\ Signed(p)
        /\ Len(ops[p]) = 3 * MaxPkgs + 9
        /\ Times(p, "publish") = MaxPkgs

====
